---- MODULE Spec2Model ----
(***************************************************************************)
(* go-graphsplit: the slice partitioner (Chunk), the Extra-File Feeder,    *)
(* the Video Feeder and the chunk command that drives them.                *)
(*                                                                         *)
(* Sizes are integers.  Gib is scaled down (see Gib below) because the     *)
(* model checker's integers are 32 bits wide and 32 * 2^30 does not fit;   *)
(* getFiles only adds and compares sizes, so the scale does not change     *)
(* which branch it takes.                                                  *)
(***************************************************************************)
EXTENDS Integers, Sequences, FiniteSets, TLC

\* ------------------------------------------------------------------ bounds
MaxFiles == 2
MaxFileSize == 3
MaxSliceSize == 3
MaxReserve == 2
MaxExtra == 2
MaxSpin == 1
MaxOffset == 10
MaxVideoCalls == 3
MaxRuns == 2

\* --------------------------------------------------------------- constants
\* const Gib (extra_file.go:8), in scaled units: one unit stands for 2^30 bytes
Gib == 1

VARIABLES
    disk,            \* sizes of the regular files under TargetPath
    params,          \* ChunkParams: ExpectSliceSize, Parallel
    ef,              \* *ExtraFile: files, idx, sliceSize, pieceRawSize
    pc,              \* position of Chunk
    ret,             \* what Chunk returned
    partSliceSize,
    sliceTotal,
    allFiles,
    item,            \* index into allFiles of the range loop
    cumuSize,
    graphSliceCount,
    graphFiles,
    fileSliceCount,
    seekStart,
    seekEnd,
    built,           \* the calls of BuildIpldGraph, in order
    efCalls,         \* the calls of ExtraFile.getFiles, in order
    vf,              \* *VideoFile: counter, endTime
    vcalls,          \* the getFiles call each goroutine is in
    vreqs,           \* the ffmpeg invocations of VideoSlice, in order
    cfgFile,         \* the configuration file on disk
    loaded,          \* what LoadConfig read from it
    drv,             \* the chunk command: position, cfg, sliceSize, ...
    cfgIn,           \* the Config that is written to a file
    tomlFile,        \* that file: its lines
    reread           \* what LoadConfig made of the file

chunkLocals == <<partSliceSize, sliceTotal, allFiles, item, cumuSize,
                 graphSliceCount, graphFiles, fileSliceCount, seekStart, seekEnd>>
chunkVars == <<disk, params, ef, pc, ret, chunkLocals, built, efCalls>>
videoVars == <<vf, vcalls, vreqs>>
driverVars == <<cfgFile, loaded, drv>>
configVars == <<cfgIn, tomlFile, reread>>
outside == <<videoVars, driverVars, configVars>>
vars == <<chunkVars, videoVars, driverVars, configVars>>

\* ----------------------------------------------------------------- helpers
RECURSIVE SumSeq(_)
SumSeq(s) == IF s = <<>> THEN 0 ELSE Head(s) + SumSeq(Tail(s))

RECURSIVE Flatten(_)
Flatten(ss) == IF ss = <<>> THEN <<>> ELSE Head(ss) \o Flatten(Tail(ss))

SeqsUpTo(S, n) == UNION {[1..k -> S] : k \in 0..n}

IsSorted(s) == \A k \in 1..(Len(s) - 1) : s[k] <= s[k + 1]

\* Go's integer division truncates toward zero
GoDiv(a, b) ==
    IF (a >= 0) = (b > 0) THEN (IF a >= 0 THEN a ELSE -a) \div (IF b > 0 THEN b ELSE -b)
    ELSE -((IF a >= 0 THEN a ELSE -a) \div (IF b > 0 THEN b ELSE -b))

\* ------------------------------------------------------------- descriptors
\* Finfo.  file: which file (index in allFiles, or in ExtraFile.files);
\* cut: the number in the name's ".%08d" suffix, -1 for an unsplit file.
WholeFile(src, k, size) ==
    [src |-> src, file |-> k, cut |-> -1, SeekStart |-> 0, SeekEnd |-> size - 1]

CutFile(k, n, from, to) ==
    [src |-> "input", file |-> k, cut |-> n, SeekStart |-> from, SeekEnd |-> to]

SizeInSlice(d) == d.SeekEnd - d.SeekStart + 1

\* ------------------------------------------------------ ExtraFile.getFiles
Ceiling == 32 * Gib

\* the reserve left out of the test
AdmissibleNoReserve(total, size, pieceRawSize) == total + size <= Ceiling

Admissible(total, size, pieceRawSize) == total + size + pieceRawSize <= Ceiling

KeepFilling(total, sliceSize) == total < sliceSize

\* the cursor left where it was
NextIdxStays(idx, count) == idx

NextIdx(idx, count) == (idx + 1) % count

\* the wraparound test never true
NeverFullRevolution(idx, startIdx) == FALSE

FullRevolution(idx, startIdx) == idx = startIdx

\* One pass of the for loop of getFiles from cursor idx; examined counts the
\* candidates looked at.  The loop is cut off after count + 1 candidates.
RECURSIVE GetFilesLoop(_, _, _, _, _, _)
GetFilesLoop(rf, startIdx, idx, total, files, examined) ==
    LET count == Len(rf.files)
        size == rf.files[idx + 1]
        admit == Admissible(total, size, rf.pieceRawSize)
        total2 == IF admit THEN total + size ELSE total
        files2 == IF admit THEN Append(files, WholeFile("extra", idx + 1, size)) ELSE files
        idx2 == NextIdx(idx, count)
    IN  IF ~KeepFilling(total, rf.sliceSize) \/ examined > count
        THEN [files |-> files, idx |-> idx, total |-> total, examined |-> examined,
              startIdx |-> startIdx]
        ELSE IF FullRevolution(idx2, startIdx)
        THEN [files |-> files2, idx |-> idx2, total |-> total2, examined |-> examined + 1,
              startIdx |-> startIdx]
        ELSE GetFilesLoop(rf, startIdx, idx2, total2, files2, examined + 1)

GetFiles(rf) ==
    IF Len(rf.files) = 0
    THEN [files |-> <<>>, idx |-> rf.idx, total |-> 0, examined |-> 0, startIdx |-> rf.idx]
    ELSE GetFilesLoop(rf, rf.idx, rf.idx, 0, <<>>, 0)

\* ------------------------------------------------------------------ Chunk
TotalSize(files) == SumSeq(files)

GetGraphCount(files, sliceSize) ==
    IF TotalSize(files) = 0 THEN 0 ELSE GoDiv(TotalSize(files), sliceSize) + 1

SliceSizeUnset(sliceSize) == sliceSize = 0

\* the early return dropped
NeverEmptyInput(total) == FALSE

EmptyInput(total) == total = 0

PartSliceSize(expect, reserved) == expect - reserved

\* the first cut ignores what is already accumulated
FirstCutWholeSlice(part, cumu) == part

FirstCut(part, cumu) == part - cumu

CutEnd(start, len) == start + len - 1

\* the next cut starts on the byte the last one ended with
NextCutStartOverlaps(end) == end

NextCutStart(end) == end + 1

\* the last cut ends one byte past the file
ClipEndPastFile(end, fileSize) == IF end >= fileSize - 1 THEN fileSize ELSE end

ClipEnd(end, fileSize) == IF end >= fileSize - 1 THEN fileSize - 1 ELSE end

MoreToCut(end, fileSize) == end < fileSize - 1

FullCut(start, end, part) == end - start = part - 1

Orders(files) ==
    {[k \in 1..Len(files) |-> files[p[k]]] : p \in Permutations(1..Len(files))}

\* BuildIpldGraph(ctx, append(params.Ef.getFiles(), graphFiles...), GenGraphName(...), params)
\* ok: whether the build succeeded (Cb.OnSuccess) or failed (Cb.OnError, which is fatal);
\* onSuccess, onError: how many times the build called each for this slice
BuildIpldGraph(gf, ok) ==
    LET r == GetFiles(ef)
    IN  /\ ef' = [ef EXCEPT !.idx = r.idx]
        /\ efCalls' = Append(efCalls, r)
        /\ built' = Append(built, [files |-> r.files \o gf, index |-> graphSliceCount,
                                   total |-> sliceTotal,
                                   onSuccess |-> IF ok THEN 1 ELSE 0,
                                   onError |-> IF ok THEN 0 ELSE 1])

\* the slice counter not advanced
ResetSameSlice ==
    /\ cumuSize' = 0
    /\ graphFiles' = <<>>
    /\ graphSliceCount' = graphSliceCount

Reset ==
    /\ cumuSize' = 0
    /\ graphFiles' = <<>>
    /\ graphSliceCount' = graphSliceCount + 1

Fatal ==
    /\ pc' = "fatal"
    /\ UNCHANGED <<ret, chunkLocals>>

\* lines 171-183
ChunkValidate ==
    /\ pc = "entry"
    /\ IF SliceSizeUnset(params.ExpectSliceSize)
       THEN pc' = "done" /\ ret' = "slice size has been set as 0"
       ELSE IF params.Parallel <= 0
       THEN pc' = "done" /\ ret' = "parallel has to be greater than 0"
       ELSE pc' = "count" /\ ret' = ret
    /\ UNCHANGED <<outside, disk, params, ef, chunkLocals, built, efCalls>>

\* lines 185-191
ChunkCount ==
    /\ pc = "count"
    /\ partSliceSize' = PartSliceSize(params.ExpectSliceSize, ef.sliceSize)
    /\ sliceTotal' = GetGraphCount(disk, params.ExpectSliceSize)
    /\ IF EmptyInput(sliceTotal')
       THEN pc' = "done" /\ ret' = "nil"
       ELSE pc' = "enumerate" /\ ret' = ret
    /\ UNCHANGED <<outside, disk, params, ef, allFiles, item, cumuSize, graphSliceCount,
                   graphFiles, fileSliceCount, seekStart, seekEnd, built, efCalls>>

\* lines 192-199
ChunkEnumerate ==
    /\ pc = "enumerate"
    /\ allFiles' \in Orders(disk)
    /\ item' = 1
    /\ pc' = "files"
    /\ UNCHANGED <<outside, disk, params, ef, ret, partSliceSize, sliceTotal, cumuSize,
                   graphSliceCount, graphFiles, fileSliceCount, seekStart, seekEnd,
                   built, efCalls>>

\* lines 209-211
ChunkFileFits ==
    /\ pc = "files" /\ item <= Len(allFiles)
    /\ cumuSize + allFiles[item] < partSliceSize
    /\ cumuSize' = cumuSize + allFiles[item]
    /\ graphFiles' = Append(graphFiles, WholeFile("input", item, allFiles[item]))
    /\ item' = item + 1
    /\ UNCHANGED <<outside, disk, params, ef, pc, ret, partSliceSize, sliceTotal, allFiles,
                   graphSliceCount, fileSliceCount, seekStart, seekEnd, built, efCalls>>

\* lines 212-222
ChunkFileFills ==
    /\ pc = "files" /\ item <= Len(allFiles)
    /\ cumuSize + allFiles[item] = partSliceSize
    /\ \E ok \in BOOLEAN :
        /\ BuildIpldGraph(Append(graphFiles, WholeFile("input", item, allFiles[item])), ok)
        /\ IF ok
           THEN /\ Reset
                /\ item' = item + 1
                /\ UNCHANGED <<pc, ret, partSliceSize, sliceTotal, allFiles,
                               fileSliceCount, seekStart, seekEnd>>
           ELSE Fatal
    /\ UNCHANGED <<outside, disk, params>>

\* lines 223-253: the first cut
ChunkFirstCut ==
    /\ pc = "files" /\ item <= Len(allFiles)
    /\ cumuSize + allFiles[item] > partSliceSize
    /\ LET firstCut == FirstCut(partSliceSize, cumuSize)
           end == CutEnd(0, firstCut)
           fi == CutFile(item, 0, 0, end)
       IN \E ok \in BOOLEAN :
            /\ BuildIpldGraph(Append(graphFiles, fi), ok)
            /\ IF ok
               THEN /\ Reset
                    /\ IF MoreToCut(end, allFiles[item])
                       THEN /\ pc' = "cuts"
                            /\ fileSliceCount' = 1
                            /\ seekStart' = 0
                            /\ seekEnd' = end
                            /\ item' = item
                       ELSE /\ pc' = "files"
                            /\ fileSliceCount' = 0
                            /\ seekStart' = 0
                            /\ seekEnd' = 0
                            /\ item' = item + 1
                    /\ UNCHANGED <<ret, partSliceSize, sliceTotal, allFiles>>
               ELSE Fatal
    /\ UNCHANGED <<outside, disk, params>>

\* lines 254-287: one pass of the loop over the following cuts
ChunkFollowingCut ==
    /\ pc = "cuts"
    /\ partSliceSize > 0 \/ fileSliceCount <= MaxSpin
    /\ LET start == NextCutStart(seekEnd)
           end == ClipEnd(CutEnd(start, partSliceSize), allFiles[item])
           fi == CutFile(item, fileSliceCount, start, end)
           full == FullCut(start, end, partSliceSize)
           leave == ~MoreToCut(end, allFiles[item])
       IN \E ok \in BOOLEAN :
            /\ full \/ ok
            /\ IF full
               THEN BuildIpldGraph(Append(graphFiles, fi), ok)
               ELSE UNCHANGED <<ef, efCalls, built>>
            /\ IF ok
               THEN /\ IF full
                       THEN Reset
                       ELSE /\ cumuSize' = cumuSize + (end - start + 1)
                            /\ graphFiles' = Append(graphFiles, fi)
                            /\ graphSliceCount' = graphSliceCount
                    /\ pc' = IF leave THEN "files" ELSE "cuts"
                    /\ item' = IF leave THEN item + 1 ELSE item
                    /\ fileSliceCount' = IF leave THEN 0 ELSE fileSliceCount + 1
                    /\ seekStart' = IF leave THEN 0 ELSE start
                    /\ seekEnd' = IF leave THEN 0 ELSE end
                    /\ UNCHANGED <<ret, partSliceSize, sliceTotal, allFiles>>
               ELSE Fatal
    /\ UNCHANGED <<outside, disk, params>>

\* lines 290-297
ChunkFinal ==
    /\ pc = "files" /\ item > Len(allFiles)
    /\ IF cumuSize > 0
       THEN \E ok \in BOOLEAN :
              /\ BuildIpldGraph(graphFiles, ok)
              /\ IF ok
                 THEN pc' = "done" /\ ret' = "nil" /\ UNCHANGED chunkLocals
                 ELSE Fatal
       ELSE /\ pc' = "done" /\ ret' = "nil"
            /\ UNCHANGED <<chunkLocals, ef, efCalls, built>>
    /\ UNCHANGED <<outside, disk, params>>

ChunkNext ==
    \/ ChunkValidate
    \/ ChunkCount
    \/ ChunkEnumerate
    \/ ChunkFileFits
    \/ ChunkFileFills
    \/ ChunkFirstCut
    \/ ChunkFollowingCut
    \/ ChunkFinal

\* ------------------------------------------------------------ Video Feeder
Goroutines == {1, 2}

\* strconv.Itoa of a number below 1000: its decimal digits, not padded
Itoa3(n) ==
    IF n < 10 THEN <<n>>
    ELSE IF n < 100 THEN <<n \div 10, n % 10>>
    ELSE <<n \div 100, (n \div 10) % 10, n % 10>>

\* timeDelayMS: the string h:m:s.s1, kept as its four fields
timeDelayMS(ms) ==
    LET sec == ms \div 1000
    IN  [h |-> sec \div 3600, m |-> (sec % 3600) \div 60, s |-> (sec % 3600) % 60,
         s1 |-> Itoa3(ms % 1000)]

\* the milliseconds a decimal fraction of a second denotes: .1 is 100, .10 is 100
FractionMs(digits) ==
    digits[1] * 100
        + (IF Len(digits) > 1 THEN digits[2] * 10 ELSE 0)
        + (IF Len(digits) > 2 THEN digits[3] ELSE 0)

\* the position, in milliseconds, that ffmpeg reads from -ss h:m:s.s1
PositionMs(str) == ((str.h * 60 + str.m) * 60 + str.s) * 1000 + FractionMs(str.s1)

\* NewVideoFile: counter is countOld, endTime the duration ffprobe reports (here in ms)
NewVideoFile(duration, countOld) ==
    [counter |-> countOld, endTime |-> duration, countOld |-> countOld]

Idle == [pc |-> "idle", index |-> -1, files |-> <<>>]

\* beginTime := timeDelayMS(int(index)): the index is taken as milliseconds, one per call
FixedStepMs == 1

\* the new value of the counter taken as the index
IndexIsCurrent(current) == current

\* index := current - 1
IndexOf(current) == current - 1

\* getFiles, lines 170-173: current := atomic.AddInt64(&rf.counter, 1); index := current - 1
VideoAdd(g) ==
    /\ vcalls[g].pc = "idle"
    /\ vf.counter - vf.countOld < MaxVideoCalls
    /\ vf' = [vf EXCEPT !.counter = vf.counter + 1]
    /\ vcalls' = [vcalls EXCEPT ![g] = [pc |-> "slice", index |-> IndexOf(vf.counter + 1),
                                        files |-> <<>>]]
    /\ UNCHANGED <<vreqs, chunkVars, driverVars, configVars>>

\* getFiles, lines 175-194, with VideoSlice: ffmpeg -ss beginTime -i source -t endTime
\* into baseRename<index>.mp4; the batch is that file, or empty when ffmpeg or Stat fails
VideoSlice(g, outcome) ==
    /\ vcalls[g].pc = "slice"
    /\ LET index == vcalls[g].index
           beginTime == timeDelayMS(index)
       IN  /\ vreqs' = Append(vreqs, [index |-> index, startTime |-> beginTime,
                                      start |-> PositionMs(beginTime),
                                      duration |-> vf.endTime, output |-> index])
           /\ vcalls' = [vcalls EXCEPT ![g] =
                  [pc |-> "idle", index |-> index,
                   files |-> IF outcome = "written" THEN <<index>> ELSE <<>>]]
    /\ UNCHANGED <<vf, chunkVars, driverVars, configVars>>

VideoNext ==
    \/ \E g \in Goroutines : VideoAdd(g)
    \/ \E g \in Goroutines, outcome \in {"written", "ffmpeg failed", "stat failed"} :
         VideoSlice(g, outcome)

\* ------------------------------------------------------- the chunk command
\* Config (config.go:13-17).  ExtraFileSizeInOnePiece is kept as its text ("" when
\* unset, "bad" for one units.RAMInBytes cannot parse, "size" for one it can) and
\* the number of bytes a parsable text denotes.
SizeText(text, bytes) == [text |-> text, bytes |-> bytes]

ConfigOf(sliceSize, path, budget) ==
    [SliceSize |-> sliceSize, ExtraFilePath |-> path, ExtraFileSizeInOnePiece |-> budget]

ZeroConfig == ConfigOf(0, "", SizeText("", 0))

\* the file on disk: whether LoadConfig can open and decode it, and what it holds
FileOf(readable, c) == [readable |-> readable, cfg |-> c]

\* LoadConfig: the decoded file, or an error
LoadConfig(file) == [err |-> ~file.readable, cfg |-> file.cfg]

\* SaveConfig: the file truncated and rewritten with the encoded Config
SaveConfig(c) == FileOf(TRUE, c)

SliceSizeRejected(sliceSize) == sliceSize <= 0

BudgetMissing(c) == c.ExtraFileSizeInOnePiece.text = ""

BudgetUnparsable(c) == c.ExtraFileSizeInOnePiece.text = "bad"

RAMInBytes(c) == c.ExtraFileSizeInOnePiece.bytes

OverCeiling(sliceSize, extraFileSliceSize) == sliceSize + extraFileSliceSize > Ceiling

Exit(err) == [drv EXCEPT !.pc = "exit", !.err = err]

\* lines 377-409: the flags
DrvFlags ==
    /\ drv.pc = "flags"
    /\ drv' = IF drv.flags = "ok" THEN [drv EXCEPT !.pc = "load"] ELSE Exit(drv.flags)
    /\ UNCHANGED <<cfgFile, loaded, chunkVars, videoVars, configVars>>

\* lines 411-415
DrvLoadConfig ==
    /\ drv.pc = "load"
    /\ LET r == LoadConfig(cfgFile)
       IN  IF r.err
           THEN drv' = Exit("failed to load config file") /\ loaded' = loaded
           ELSE /\ drv' = [drv EXCEPT !.pc = "increment", !.cfg = r.cfg]
                /\ loaded' = [done |-> TRUE, cfg |-> r.cfg]
    /\ UNCHANGED <<cfgFile, chunkVars, videoVars, configVars>>

\* lines 417-423
DrvIncrement ==
    /\ drv.pc = "increment"
    /\ LET c == [drv.cfg EXCEPT !.SliceSize = drv.cfg.SliceSize + 1]
       IN  drv' = IF SliceSizeRejected(c.SliceSize)
                  THEN [Exit("slice size has been set as") EXCEPT !.cfg = c,
                                                                  !.sliceSize = c.SliceSize]
                  ELSE [drv EXCEPT !.pc = "save", !.cfg = c, !.sliceSize = c.SliceSize]
    /\ UNCHANGED <<cfgFile, loaded, chunkVars, videoVars, configVars>>

\* lines 424-427; saved: whether the file could be opened and written
DrvSaveConfig ==
    /\ drv.pc = "save"
    /\ \E saved \in BOOLEAN :
        IF saved
        THEN cfgFile' = SaveConfig(drv.cfg) /\ drv' = [drv EXCEPT !.pc = "budget"]
        ELSE cfgFile' = cfgFile /\ drv' = Exit("failed to save config file")
    /\ UNCHANGED <<loaded, chunkVars, videoVars, configVars>>

\* lines 429-441
DrvBudget ==
    /\ drv.pc = "budget"
    /\ drv' =
        IF drv.cfg.ExtraFilePath # "" /\ BudgetMissing(drv.cfg)
        THEN Exit("extra file size in one piece is required when extra file path is set")
        ELSE IF drv.cfg.ExtraFilePath # "" /\ BudgetUnparsable(drv.cfg)
        THEN Exit("failed to parse real file size")
        ELSE LET extra == IF drv.cfg.ExtraFilePath # "" THEN RAMInBytes(drv.cfg) ELSE 0
             IN  IF OverCeiling(drv.sliceSize, extra)
                 THEN [Exit("exceeds 32 GiB") EXCEPT !.extraFileSliceSize = extra]
                 ELSE [drv EXCEPT !.pc = "setup", !.extraFileSliceSize = extra]
    /\ UNCHANGED <<cfgFile, loaded, chunkVars, videoVars, configVars>>

\* lines 448-505: the callback, NewVideoFile, the database (ready: whether they
\* succeeded), then params := graphsplit.ChunkParams{ExpectSliceSize: int64(sliceSize), ...}
DrvSetup ==
    /\ drv.pc = "setup"
    /\ \E ready \in BOOLEAN :
        IF ready
        THEN /\ drv' = [drv EXCEPT !.pc = "chunk"]
             /\ params' = [ExpectSliceSize |-> drv.sliceSize, Parallel |-> drv.parallel]
        ELSE /\ drv' = Exit("setup failed")
             /\ params' = params
    /\ UNCHANGED <<cfgFile, loaded, disk, ef, pc, ret, chunkLocals, built, efCalls,
                   videoVars, configVars>>

\* lines 509-515: graphsplit.Chunk(ctx, &params), with the params built before the loop.
\* No ExtraFile is built (lines 444-447 and 499 are commented out): the partition runs
\* without candidates and without reservation.
\* runs: for each run, the capacity it partitions with and the SliceSize in the file
DrvCallChunk ==
    /\ drv.pc = "chunk"
    /\ pc \in {"idle", "done"}
    /\ pc' = "entry"
    /\ ret' = "none"
    /\ partSliceSize' = 0
    /\ sliceTotal' = 0
    /\ allFiles' = <<>>
    /\ item' = 0
    /\ cumuSize' = 0
    /\ graphSliceCount' = 0
    /\ graphFiles' = <<>>
    /\ fileSliceCount' = 0
    /\ seekStart' = 0
    /\ seekEnd' = 0
    /\ built' = <<>>
    /\ efCalls' = <<>>
    /\ drv' = [drv EXCEPT !.pc = "chunking",
                          !.runs = Append(drv.runs, [capacity |-> params.ExpectSliceSize,
                                                     persisted |-> cfgFile.cfg.SliceSize])]
    /\ UNCHANGED <<disk, params, ef, cfgFile, loaded, videoVars, configVars>>

\* lines 509-518: Chunk returned; without --loop, or with an error, the command returns
DrvChunkReturned ==
    /\ drv.pc = "chunking"
    /\ pc = "done"
    /\ drv' = IF ret # "nil" THEN Exit(IF drv.loop THEN "failed to chunk" ELSE ret)
              ELSE IF ~drv.loop THEN Exit("nil")
              ELSE [drv EXCEPT !.pc = "looped"]
    /\ UNCHANGED <<cfgFile, loaded, chunkVars, videoVars, configVars>>

\* OnError of every callback is log.Fatal: the process ends inside Chunk
DrvChunkFatal ==
    /\ drv.pc = "chunking"
    /\ pc = "fatal"
    /\ drv' = Exit("fatal")
    /\ UNCHANGED <<cfgFile, loaded, chunkVars, videoVars, configVars>>

\* lines 520-529: the next capacity is saved, then the 60 seconds' wait
DrvLoopSave ==
    /\ drv.pc = "looped"
    /\ Len(drv.runs) < MaxRuns
    /\ LET size == drv.sliceSize + 1
           c == [drv.cfg EXCEPT !.SliceSize = size]
       IN  \E saved \in BOOLEAN :
            IF saved
            THEN /\ cfgFile' = SaveConfig(c)
                 /\ drv' = [drv EXCEPT !.pc = "chunk", !.cfg = c, !.sliceSize = size]
            ELSE /\ cfgFile' = cfgFile
                 /\ drv' = [Exit("failed to save config file") EXCEPT !.cfg = c,
                                                                      !.sliceSize = size]
    /\ UNCHANGED <<loaded, chunkVars, videoVars, configVars>>

DrvNext ==
    \/ DrvFlags
    \/ DrvLoadConfig
    \/ DrvIncrement
    \/ DrvSaveConfig
    \/ DrvBudget
    \/ DrvSetup
    \/ DrvCallChunk
    \/ DrvChunkReturned
    \/ DrvChunkFatal
    \/ DrvLoopSave

\* ------------------------------------------------- the configuration file
\* The file is kept as its lines, a line as its tokens: "SliceSize = -12" is
\* <<"SliceSize", " =", " ", "-", "1", "2">>, a comment is <<"# ", text>>, an empty
\* line is <<>>.
DigitChars == <<"0", "1", "2", "3", "4", "5", "6", "7", "8", "9">>

\* the decimal digits of n >= 0
RECURSIVE FormatDigits(_)
FormatDigits(n) ==
    IF n < 10 THEN <<DigitChars[n + 1]>>
    ELSE Append(FormatDigits(n \div 10), DigitChars[(n % 10) + 1])

\* how the encoder writes an integer
FormatInt(n) == IF n < 0 THEN <<"-">> \o FormatDigits(-n) ELSE FormatDigits(n)

IsDigit(t) == \E d \in 1..10 : DigitChars[d] = t

DigitValue(t) == (CHOOSE d \in 1..10 : DigitChars[d] = t) - 1

RECURSIVE ParseDigits(_, _)
ParseDigits(ts, acc) ==
    IF ts = <<>> THEN acc ELSE ParseDigits(Tail(ts), acc * 10 + DigitValue(Head(ts)))

\* how the decoder reads an integer: an optional sign and at least one digit
ParseInt(ts) ==
    LET digits == IF ts # <<>> /\ Head(ts) = "-" THEN Tail(ts) ELSE ts
        ok == digits # <<>> /\ \A k \in 1..Len(digits) : IsDigit(digits[k])
    IN  [ok |-> ok,
         value |-> IF ~ok THEN 0
                   ELSE IF Head(ts) = "-" THEN -ParseDigits(digits, 0)
                   ELSE ParseDigits(digits, 0)]

\* how the encoder writes a string: between double quotes, on one line
Quote(str) == <<"\"", str, "\"">>

IsQuoted(ts) == Len(ts) = 3 /\ ts[1] = "\"" /\ ts[3] = "\""

KeyLine(key, value) == <<key, " =", " ">> \o value

\* toml.NewEncoder(..).Encode(c): one line per field, in the order of the struct
Encode(c) ==
    << KeyLine("SliceSize", FormatInt(c.SliceSize)),
       KeyLine("ExtraFilePath", Quote(c.ExtraFilePath)),
       KeyLine("ExtraFileSizeInOnePiece", Quote(c.ExtraFileSizeInOnePiece.text)) >>

\* strings.Split(buf.String(), "\n"): every line ends with "\n", so an empty string follows
SplitLines(ls) == Append(ls, <<>>)

\* the toml and comment tags of Config
TomlKeys == <<"SliceSize", "ExtraFilePath", "ExtraFileSizeInOnePiece">>

comments ==
    [key \in {TomlKeys[k] : k \in 1..Len(TomlKeys)} |->
        IF key = "SliceSize" THEN "SliceSize, the size of each slice in bytes, default is 18G"
        ELSE IF key = "ExtraFilePath" THEN "ExtraFilePath extra file path"
        ELSE "ExtraFileSizeInOnePiece, for example: 500Mib"]

\* strings.HasPrefix(strings.TrimSpace(line), key+" =")
HasKeyPrefix(line, key) == Len(line) >= 2 /\ line[1] = key /\ line[2] = " ="

\* the comment written without the "# " before it
CommentLineBare(comment) == <<comment>>

\* fmt.Sprintf("# %s", comment)
CommentLine(comment) == <<"# ", comment>>

\* the comment lines that go before one line
CommentsFor(line) ==
    LET hits == SelectSeq(TomlKeys, LAMBDA key : HasKeyPrefix(line, key))
    IN  [k \in 1..Len(hits) |-> CommentLine(comments[hits[k]])]

RECURSIVE InsertComments(_)
InsertComments(ls) ==
    IF ls = <<>> THEN <<>>
    ELSE IF Head(ls) = <<>> THEN <<Head(ls)>> \o InsertComments(Tail(ls))
    ELSE CommentsFor(Head(ls)) \o <<Head(ls)>> \o InsertComments(Tail(ls))

header == << <<"# ", "configuration file">>, <<"# ", "generated, with the fields explained">>, <<>> >>

\* the lines of the text generateTOMLWithComments returns
generateTOMLWithComments(c) == header \o InsertComments(SplitLines(Encode(c)))

\* the lines SaveConfig writes
SaveConfigLines(c) == Encode(c)

IsCommentLine(line) == line[1] = "# "

\* the decoder on one line, given what it has decoded so far
DecodeLine(r, line) ==
    LET value == SubSeq(line, 4, Len(line))
    IN  IF r.err \/ line = <<>> \/ IsCommentLine(line) THEN r
        ELSE IF HasKeyPrefix(line, "SliceSize")
        THEN IF ParseInt(value).ok
             THEN [r EXCEPT !.cfg.SliceSize = ParseInt(value).value]
             ELSE [r EXCEPT !.err = TRUE]
        ELSE IF HasKeyPrefix(line, "ExtraFilePath")
        THEN IF IsQuoted(value)
             THEN [r EXCEPT !.cfg.ExtraFilePath = value[2]]
             ELSE [r EXCEPT !.err = TRUE]
        ELSE IF HasKeyPrefix(line, "ExtraFileSizeInOnePiece")
        THEN IF IsQuoted(value)
             THEN [r EXCEPT !.cfg.ExtraFileSizeInOnePiece = SizeText(value[2], 0)]
             ELSE [r EXCEPT !.err = TRUE]
        ELSE [r EXCEPT !.err = TRUE]

RECURSIVE Decode(_, _)
Decode(r, ls) == IF ls = <<>> THEN r ELSE Decode(DecodeLine(r, Head(ls)), Tail(ls))

\* LoadConfig on a file of these lines; a file that does not exist cannot be opened
LoadConfigLines(file) ==
    IF file.by = "none" THEN [err |-> TRUE, cfg |-> ZeroConfig]
    ELSE Decode([err |-> FALSE, cfg |-> ZeroConfig], file.lines)

\* TestConfig, lines 13-15: generateTOMLWithComments, then os.WriteFile
CfgGenerate ==
    /\ tomlFile' = [by |-> "generateTOMLWithComments", lines |-> generateTOMLWithComments(cfgIn)]
    /\ UNCHANGED <<cfgIn, reread, chunkVars, videoVars, driverVars>>

\* SaveConfig
CfgSave ==
    /\ tomlFile' = [by |-> "SaveConfig", lines |-> SaveConfigLines(cfgIn)]
    /\ UNCHANGED <<cfgIn, reread, chunkVars, videoVars, driverVars>>

\* LoadConfig
CfgLoad ==
    /\ LET r == LoadConfigLines(tomlFile)
       IN  reread' = [done |-> TRUE, from |-> tomlFile.by, err |-> r.err, cfg |-> r.cfg]
    /\ UNCHANGED <<cfgIn, tomlFile, chunkVars, videoVars, driverVars>>

ConfigNext ==
    \/ CfgGenerate
    \/ CfgSave
    \/ CfgLoad

\* ------------------------------------------------------------------- Init
FileSizes == 0..MaxFileSize
SliceSizes == (-1)..MaxSliceSize
Reserves == 0..MaxReserve
\* candidates of no bytes, of one byte and of two
ExtraSizes == {0, 1, 2}
\* no reserve, and a reserve that leaves one byte under the ceiling
PieceRawSizes == {0, Ceiling - 1}
Parallels == {0, 2}

Disks == {d \in SeqsUpTo(FileSizes, MaxFiles) : IsSorted(d)}

\* NewRealFile: the cursor starts at 0
NewRealFile(files, sliceSize, pieceRawSize) ==
    [files |-> files, idx |-> 0, sliceSize |-> sliceSize, pieceRawSize |-> pieceRawSize]

VideoOff ==
    /\ vf = [counter |-> 0, endTime |-> 0, countOld |-> 0]
    /\ vcalls = <<>>
    /\ vreqs = <<>>

DriverOff ==
    /\ cfgFile = [readable |-> FALSE, cfg |-> [SliceSize |-> 0]]
    /\ loaded = [done |-> FALSE, cfg |-> [SliceSize |-> 0]]
    /\ drv = [pc |-> "none"]

ConfigOff ==
    /\ cfgIn = [SliceSize |-> 0]
    /\ tomlFile = [by |-> "none", lines |-> <<>>]
    /\ reread = [done |-> FALSE]

ChunkFresh ==
    /\ ret = "none"
    /\ partSliceSize = 0
    /\ sliceTotal = 0
    /\ allFiles = <<>>
    /\ item = 0
    /\ cumuSize = 0
    /\ graphSliceCount = 0
    /\ graphFiles = <<>>
    /\ fileSliceCount = 0
    /\ seekStart = 0
    /\ seekEnd = 0
    /\ built = <<>>
    /\ efCalls = <<>>

\* the scenario of the specification: files of 10, 10 and 5 bytes, capacity 12
ScenarioDisk == <<5, 10, 10>>
ScenarioFiles == <<10, 10, 5>>
ScenarioCapacity == 12

InitBounded ==
    /\ disk \in Disks
    /\ params \in [ExpectSliceSize : SliceSizes, Parallel : Parallels]
    /\ \E files \in SeqsUpTo(ExtraSizes, MaxExtra), r \in Reserves, p \in PieceRawSizes :
         ef = NewRealFile(files, r, p)
    /\ pc = "entry"
    /\ ChunkFresh
    /\ VideoOff
    /\ DriverOff
    /\ ConfigOff

InitScenario ==
    /\ disk = ScenarioDisk
    /\ params = [ExpectSliceSize |-> ScenarioCapacity, Parallel |-> 2]
    /\ ef = NewRealFile(<<>>, 0, 0)
    /\ pc = "entry"
    /\ ChunkFresh
    /\ VideoOff
    /\ DriverOff
    /\ ConfigOff

Init == InitBounded \/ InitScenario

Next == ChunkNext

Spec == Init /\ [][Next]_vars

\* the durations of the source video, in milliseconds
Durations == {1, 101, 5000}

ChunkOff ==
    /\ disk = <<>>
    /\ params = [ExpectSliceSize |-> 0, Parallel |-> 0]
    /\ ef = NewRealFile(<<>>, 0, 0)
    /\ pc = "idle"
    /\ ChunkFresh

InitVideo ==
    /\ \E d \in Durations, c \in 0..MaxOffset : vf = NewVideoFile(d, c)
    /\ vcalls = [g \in Goroutines |-> Idle]
    /\ vreqs = <<>>
    /\ ChunkOff
    /\ DriverOff
    /\ ConfigOff

SpecVideo == InitVideo /\ [][VideoNext]_vars

\* what the flags can be: complete, or one of the failures of lines 385-409
Flags == {"ok", "the path of car-dir does not exist", "must input video path",
          "limit cannot be less than 0", "get video duration err",
          "config file path is required"}

\* SliceSize values around zero and around the ceiling
ConfigSliceSizes == ((-2)..MaxSliceSize) \cup {Ceiling - 1, Ceiling}
ConfigBudgets == {SizeText("", 0), SizeText("bad", 0)} \cup {SizeText("size", n) : n \in 0..2}
ConfigFiles ==
    {FileOf(FALSE, ZeroConfig)} \cup
    {FileOf(TRUE, ConfigOf(n, path, b)) :
        n \in ConfigSliceSizes, path \in {"", "extra"}, b \in ConfigBudgets}

DriverDisks == {<<>>, <<1>>, <<3>>, <<1, 3>>}

InitDriver ==
    /\ cfgFile \in ConfigFiles
    /\ loaded = [done |-> FALSE, cfg |-> ZeroConfig]
    /\ \E f \in Flags, loop \in BOOLEAN, parallel \in Parallels :
         drv = [pc |-> "flags", flags |-> f, loop |-> loop, parallel |-> parallel,
                cfg |-> ZeroConfig, sliceSize |-> 0, extraFileSliceSize |-> 0,
                err |-> "none", runs |-> <<>>]
    /\ disk \in DriverDisks
    /\ params = [ExpectSliceSize |-> 0, Parallel |-> 0]
    /\ ef = NewRealFile(<<>>, 0, 0)
    /\ pc = "idle"
    /\ ChunkFresh
    /\ VideoOff
    /\ ConfigOff

DriverNext == DrvNext \/ ChunkNext

SpecDriver == InitDriver /\ [][DriverNext]_vars

\* SliceSize values of one, two, three and four digits, of both signs
TomlSliceSizes == ((-MaxSliceSize)..MaxSliceSize) \cup {10, -12, 105, -340, 1000}
TomlPaths == {"", "/data/extra"}
TomlBudgets == {SizeText("", 0), SizeText("500Mib", 0)}

InitConfig ==
    /\ cfgIn \in {ConfigOf(n, path, b) : n \in TomlSliceSizes, path \in TomlPaths,
                                         b \in TomlBudgets}
    /\ tomlFile = [by |-> "none", lines |-> <<>>]
    /\ reread = [done |-> FALSE, from |-> "none", err |-> FALSE, cfg |-> ZeroConfig]
    /\ ChunkOff
    /\ VideoOff
    /\ DriverOff

SpecConfig == InitConfig /\ [][ConfigNext]_vars

\* ----------------------------------------------------------------- claims
ConfigErrors == {"slice size has been set as 0", "parallel has to be greater than 0"}

Completed == pc = "done" /\ ret = "nil"

Emitted == Flatten([k \in 1..Len(built) |-> built[k].files])

IsInput(d) == d.src = "input"

InputDescs(k) == SelectSeq(Emitted, LAMBDA d : d.src = "input" /\ d.file = k)

RECURSIVE SumSizes(_)
SumSizes(ds) == IF ds = <<>> THEN 0 ELSE SizeInSlice(Head(ds)) + SumSizes(Tail(ds))

\* ds, in the order emitted, starts at byte 0 and each range starts right after the last
Contiguous(ds) ==
    /\ ds # <<>> => ds[1].SeekStart = 0
    /\ \A j \in 1..(Len(ds) - 1) : ds[j + 1].SeekStart = ds[j].SeekEnd + 1
    /\ \A j, k \in 1..Len(ds) : j < k => ds[j].SeekEnd < ds[k].SeekStart

Tiles(ds, size) ==
    /\ Contiguous(ds)
    /\ size > 0 => ds # <<>>
    /\ ds # <<>> => ds[Len(ds)].SeekEnd = size - 1

\* C1: with cap = capacity - reservation > 0, the ranges emitted for an input file
\* are contiguous from byte 0 without overlap at every moment, and when Chunk has
\* returned they cover [0, size-1] exactly.
C1_Tiling ==
    (partSliceSize > 0 /\ pc \notin {"entry", "count"}) =>
        \A k \in 1..Len(allFiles) :
            /\ Contiguous(InputDescs(k))
            /\ Completed => Tiles(InputDescs(k), allFiles[k])

C1_Witness ==
    /\ Completed /\ partSliceSize > 0
    /\ \E k \in 1..Len(allFiles) : Len(InputDescs(k)) >= 3

\* C2: every slice handed to BuildIpldGraph, feeder descriptors included, holds at
\* most ExpectSliceSize bytes (stated for a positive capacity and a positive cap).
C2_Capacity ==
    (params.ExpectSliceSize > 0 /\ partSliceSize > 0) =>
        \A k \in 1..Len(built) : SumSizes(built[k].files) <= params.ExpectSliceSize

\* C3: when Chunk has returned, the bytes of the partitioner's descriptors over all
\* slices add up to the bytes of the enumerated files.
C3_Conservation ==
    Completed => SumSizes(SelectSeq(Emitted, IsInput)) = TotalSize(allFiles)

C3_Witness ==
    /\ Completed
    /\ Len(built) >= 2
    /\ \E k \in 1..Len(allFiles) : Len(InputDescs(k)) >= 2
    /\ \E j \in 1..Len(Emitted) : ~IsInput(Emitted[j])

BatchSize(call) == SumSizes(call.files)

\* C4: the batch of every getFiles call plus pieceRawSize is at most 32 GiB.
C4_FeederCap ==
    \A k \in 1..Len(efCalls) : BatchSize(efCalls[k]) + ef.pieceRawSize <= Ceiling

\* a call that admitted one candidate and turned another down at the ceiling
C4_Witness ==
    \E k \in 1..Len(efCalls) :
        /\ ef.pieceRawSize > 0
        /\ BatchSize(efCalls[k]) > 0
        /\ efCalls[k].startIdx > 0
        /\ efCalls[k].examined > Len(efCalls[k].files)

\* C6: with ExpectSliceSize <= 0 Chunk is at its entry or has returned a
\* configuration error, and has enumerated, requested and built nothing.
C6_RejectsNonPositive ==
    params.ExpectSliceSize <= 0 =>
        /\ pc = "entry" \/ (pc = "done" /\ ret \in ConfigErrors)
        /\ allFiles = <<>> /\ built = <<>> /\ efCalls = <<>>

\* C8: once the slice total has been computed as 0, Chunk has returned nil, with
\* no slice built and nothing requested from the feeder.
C8_EmptyInput ==
    (pc \notin {"entry", "count"} /\ ret \notin ConfigErrors /\ sliceTotal = 0) =>
        /\ Completed
        /\ built = <<>>
        /\ efCalls = <<>>

C8_Witness ==
    /\ Completed /\ sliceTotal = 0
    /\ Len(disk) > 0 /\ TotalSize(disk) = 0
    /\ ef.files # <<>> /\ ef.sliceSize > 0

NoneAdmissible == \A j \in 1..Len(ef.files) : ~Admissible(0, ef.files[j], ef.pieceRawSize)

\* C9: every getFiles call examines at most one revolution of the candidates; with
\* no candidate, or none admissible, its batch is empty and the slice is built from
\* the partitioner's descriptors alone.
C9_OneRevolution ==
    /\ Len(built) = Len(efCalls)
    /\ \A k \in 1..Len(efCalls) :
        /\ efCalls[k].examined <= Len(ef.files)
        /\ (ef.files = <<>> \/ NoneAdmissible) =>
            /\ efCalls[k].files = <<>>
            /\ built[k].files # <<>>
            /\ \A j \in 1..Len(built[k].files) : IsInput(built[k].files[j])

C9_Witness ==
    /\ Len(ef.files) = 2 /\ NoneAdmissible /\ ef.sliceSize > 0
    /\ Len(efCalls) >= 2
    /\ efCalls[1].examined = 2
    /\ Completed

InScenario ==
    /\ allFiles = ScenarioFiles
    /\ params.ExpectSliceSize = ScenarioCapacity
    /\ ef.files = <<>> /\ ef.sliceSize = 0
    /\ Completed

Slices == [k \in 1..Len(built) |-> built[k].files]

\* C10 as claimed: [file1 whole, file2 0-1], [file2 2-9], [file3 whole]
C10_Claimed ==
    InScenario =>
        Slices = << <<WholeFile("input", 1, 10), CutFile(2, 0, 0, 1)>>,
                    <<CutFile(2, 1, 2, 9)>>,
                    <<WholeFile("input", 3, 5)>> >>

\* C10 amended: [file1 whole, file2 0-1], [file2 2-9, file3 0-3], [file3 4-4]
C10_Scenario ==
    InScenario =>
        Slices = << <<WholeFile("input", 1, 10), CutFile(2, 0, 0, 1)>>,
                    <<CutFile(2, 1, 2, 9), CutFile(3, 0, 0, 3)>>,
                    <<CutFile(3, 1, 4, 4)>> >>

C10_Witness == InScenario /\ Len(built) = 3


VideoDisjoint(a, b) ==
    a.start + a.duration <= b.start \/ b.start + b.duration <= a.start

\* C5: the source ranges [start, start + duration) that any two getFiles calls of one
\* Video Feeder ask ffmpeg for do not overlap.
C5_VideoMonotonic ==
    \A i, j \in 1..Len(vreqs) : i < j => VideoDisjoint(vreqs[i], vreqs[j])

DriverConfigErrors ==
    {"slice size has been set as",
     "extra file size in one piece is required when extra file path is set",
     "failed to parse real file size",
     "exceeds 32 GiB"}

\* C7: when the command has returned a configuration error, the configuration file
\* still holds what was loaded from it.
C7_RejectsBeforeIO ==
    (drv.pc = "exit" /\ drv.err \in DriverConfigErrors) => cfgFile.cfg = loaded.cfg

\* the slices the partitioner has completed: one per reset, and the one it was
\* handing over when the callback failed or that the end of the input emitted
SlicesCompleted ==
    graphSliceCount + (IF pc = "fatal" \/ (pc = "done" /\ cumuSize > 0) THEN 1 ELSE 0)

C12_SliceTotalBounds ==
    (params.ExpectSliceSize > 0 /\ partSliceSize > 0) =>
        \A k \in 1..Len(built) : built[k].index < built[k].total

\* C13: a Config written to a file, by generateTOMLWithComments or by SaveConfig,
\* is loaded from that file by LoadConfig without error and with the SliceSize written.
C13_RoundTrip ==
    (reread.done /\ reread.from # "none") =>
        /\ ~reread.err
        /\ reread.cfg.SliceSize = cfgIn.SliceSize

C13_Witness ==
    /\ reread.done /\ reread.from = "generateTOMLWithComments"
    /\ cfgIn.SliceSize = -340
    /\ cfgIn.ExtraFilePath # ""
    /\ tomlFile.by = "SaveConfig"

\* C14: the batch of every getFiles call holds at most the feeder's sliceSize bytes.
C14_BatchWithinBudget ==
    \A k \in 1..Len(efCalls) : BatchSize(efCalls[k]) <= ef.sliceSize

\* C15: when Chunk has returned, every enumerated file, a file of no bytes included,
\* and every cut has been handed to exactly one build, and nothing is left in the
\* accumulator.
C15_AllHandedOver ==
    (Completed /\ sliceTotal > 0) =>
        /\ \A k \in 1..Len(allFiles) : InputDescs(k) # <<>>
        /\ \A i, j \in 1..Len(Emitted) :
            (i # j /\ IsInput(Emitted[i]) /\ IsInput(Emitted[j])) => Emitted[i] # Emitted[j]
        /\ cumuSize = 0 => graphFiles = <<>>

\* the indices of the getFiles calls so far: of those that have run ffmpeg, in that
\* order, then of those that have taken their index and not yet run it
CallIndices ==
    [k \in 1..Len(vreqs) |-> vreqs[k].index] \o
    SelectSeq([g \in 1..Cardinality(Goroutines) |-> IF vcalls[g].pc = "slice"
                                                    THEN vcalls[g].index ELSE -1],
              LAMBDA i : i >= 0)

\* C16: under every interleaving the getFiles calls of one Video Feeder hold pairwise
\* different indices (hence output file names), which are exactly the values from the
\* configured offset up to the counter: one per call, whether its segmentation
\* succeeded or failed, none reused, the counter never behind an index handed out.
C16_DistinctIndices ==
    /\ \A i, j \in 1..Len(CallIndices) : i # j => CallIndices[i] # CallIndices[j]
    /\ {CallIndices[i] : i \in 1..Len(CallIndices)} = vf.countOld..(vf.counter - 1)
    /\ vf.counter >= vf.countOld
    /\ \A i, j \in 1..Len(vreqs) : i # j => vreqs[i].output # vreqs[j].output

\* a call whose segmentation failed, and a later call holding a later index
C16_Witness ==
    /\ vf.countOld > 0
    /\ Len(vreqs) >= 2
    /\ \E g, h \in Goroutines :
        /\ vcalls[g].pc = "idle" /\ vcalls[g].index >= 0 /\ vcalls[g].files = <<>>
        /\ vcalls[h].pc = "slice" /\ vcalls[h].index > vcalls[g].index

\* C17: the -ss argument of the call with index n denotes n * fixed_step_ms
\* milliseconds, and a call with a larger index starts strictly later.
C17_OffsetIsIndexTimesStep ==
    /\ \A k \in 1..Len(vreqs) : vreqs[k].start = vreqs[k].index * FixedStepMs
    /\ \A i, j \in 1..Len(vreqs) :
        vreqs[i].index < vreqs[j].index => vreqs[i].start < vreqs[j].start

\* C18: a getFiles call starts at the cursor the call before it left (the first at
\* 0, where NewRealFile puts it), and leaves the cursor at (start + candidates
\* examined) modulo the candidate count, admitted or not.
C18_CursorPersists ==
    /\ Len(efCalls) > 0 => (efCalls[1].startIdx = 0 /\ ef.idx = efCalls[Len(efCalls)].idx)
    /\ \A k \in 2..Len(efCalls) : efCalls[k].startIdx = efCalls[k - 1].idx
    /\ \A k \in 1..Len(efCalls) :
        Len(ef.files) > 0 =>
            efCalls[k].idx = (efCalls[k].startIdx + efCalls[k].examined) % Len(ef.files)

\* a second call that starts at candidate 1, turns it down, wraps and admits candidate 0
C18_Witness ==
    /\ Len(efCalls) >= 2
    /\ efCalls[1].examined = 1 /\ efCalls[1].idx = 1
    /\ efCalls[2].startIdx = 1 /\ efCalls[2].examined = 2
    /\ Len(efCalls[2].files) = 1 /\ efCalls[2].files[1].file = 1

\* C19: every run of Chunk partitions with the SliceSize the configuration file holds
\* when the run starts, one more than the run before it; and when a run has failed
\* the file still holds the SliceSize that run started with.
C19_CapacityGrows ==
    /\ \A k \in 1..Len(drv.runs) : drv.runs[k].capacity = drv.runs[k].persisted
    /\ \A k \in 2..Len(drv.runs) : drv.runs[k].capacity = drv.runs[k - 1].capacity + 1
    /\ (drv.pc = "exit" /\ drv.err \in {"failed to chunk", "fatal"}) =>
            cfgFile.cfg.SliceSize = drv.runs[Len(drv.runs)].persisted

\* C20: with a capacity above 0, whatever the reservation, every pass of the split
\* loop that stays in the loop has moved seekEnd forward (so the loop, which runs
\* while seekEnd < fileSize - 1, ends).
C20_SplitLoopAdvances ==
    [][(params.ExpectSliceSize > 0 /\ pc = "cuts" /\ pc' = "cuts") => seekEnd' > seekEnd]_vars

\* the k-th build is the emit at the end of the input
IsFinalEmit(k) ==
    /\ k = Len(built)
    /\ pc \in {"done", "fatal"}
    /\ item > Len(allFiles)
    /\ cumuSize > 0

PartitionerBytes(k) == SumSizes(SelectSeq(built[k].files, IsInput))

\* C21: whenever Chunk is about to take the next input file, or has exhausted the
\* input, cumuSize is the sum of the sizes in slice of the descriptors in graphFiles,
\* none of them the feeder's, and 0 <= cumuSize < cap; and every slice built before
\* the emit at the end of the input carries exactly cap bytes of the partitioner's.
C21_Accumulator ==
    /\ pc = "files" =>
        /\ cumuSize = SumSizes(graphFiles)
        /\ \A j \in 1..Len(graphFiles) : IsInput(graphFiles[j])
        /\ 0 <= cumuSize /\ cumuSize < partSliceSize
    /\ \A k \in 1..Len(built) : ~IsFinalEmit(k) => PartitionerBytes(k) = partSliceSize

====
